---- MODULE Spec2Model ----
(***************************************************************************)
(* Snake game: the game logic of game.h (grid, snake list, fruit          *)
(* placement, frame engine) driven by the window procedure of window.h    *)
(* (timer, keyboard and menu-command events).                             *)
(*                                                                         *)
(* The grid is a GRIDSIDE x GRIDSIDE board built exactly as the program   *)
(* builds its 60 x 60 board (GAMEGRIDROWS = GAMEGRIDCOLS = GRIDSIDE); the  *)
(* start cell and the fruit range are derived from it by the program's    *)
(* own macros.  A grid flag (containsHead, containsSnake, containsWall,   *)
(* containsFruit) is modelled as the set of cells whose flag is 1.        *)
(* The linked list of SnakeNode is the sequence segs, head first.         *)
(***************************************************************************)
EXTENDS Integers, Sequences, FiniteSets, TLC

----------------------------------------------------------------------------
(* Bounds of the model *)

GRIDSIDE == 10
MaxLen == 4
RandMax == 3
MaxGhost == 1
MaxEnergyStep == 2

----------------------------------------------------------------------------
(* Macros of game.h and window.h *)

GAMEGRIDROWS == GRIDSIDE
GAMEGRIDCOLS == GRIDSIDE
SNAKEHEADSTARTX == GAMEGRIDCOLS \div 2
SNAKEHEADSTARTY == GAMEGRIDROWS \div 2
DIRECTION_UP == 0
DIRECTION_DOWN == 1
DIRECTION_LEFT == 2
DIRECTION_RIGHT == 3
EATS_FRUIT == 4
COLLISION == 5
COLLISION_RANGE == 1
FRUIT_MARGIN == 3
NO_COLLISION == 6
PAUSE_GAME == 7
START_GAME == 8
GAME_OVER == 9
GAME_TIMER_NORMAL_SPEED_ID == 1
NORMAL_TICK_SPEED_TIMER_ID == 1
GAME_TIMER_BOOST_ID == 5
GAME_TIMER_BOOST_RECHARGE_ID == 6
MAX_ENERGY == 100
SCORE_INCREMENT == 10

Directions == {DIRECTION_UP, DIRECTION_DOWN, DIRECTION_LEFT, DIRECTION_RIGHT}

----------------------------------------------------------------------------
VARIABLES
    gameStatus,          \* gameBoard.gameStatus
    score,               \* gameBoard.score
    fruitLoc,            \* gameBoard.fruitLoc, <<x, y>>
    containsHead,        \* cells of gameBoard.grid with containsHead = 1
    containsSnake,       \* cells with containsSnake = 1
    containsWall,        \* cells with containsWall = 1
    containsFruit,       \* cells with containsFruit = 1
    segs,                \* the list snake.node, nextNode, ...: head first
    movement_direction,  \* snake.movement_direction
    timers,              \* identifiers of the armed timers of the main window
    headFreed,           \* snake.node points to a node that was passed to free()
    selfLoop,            \* the head node's nextNode points to the head node
    proc,                \* "running", or "crashed" / "hung" after undefined behaviour
    ghost,               \* 0: the game was not resumed from GAME_OVER since the last
                         \* reset and snake.node does not dangle; n > 0: one of the two
                         \* happened, and n - 1 frames were generated since
    boost,               \* snake.boost
    boost_depleted,      \* snake.boost_depleted
    boost_recharging,    \* snake.boost_recharging
    energy_level,        \* gameBoard.energy_level
    mallocFailed,        \* a call of malloc has returned NULL
    logErrorCalls,       \* number of calls of logError
    wmDestroys           \* number of WM_DESTROY messages SnakeWindowProc has handled

vars == <<gameStatus, score, fruitLoc, containsHead, containsSnake, containsWall,
          containsFruit, segs, movement_direction, timers, headFreed, selfLoop,
          proc, ghost, boost, boost_depleted, boost_recharging, energy_level,
          mallocFailed, logErrorCalls, wmDestroys>>

boostVars == <<boost, boost_depleted, boost_recharging, energy_level>>

----------------------------------------------------------------------------
(* Grid *)

Cells == (0 .. GAMEGRIDROWS - 1) \X (0 .. GAMEGRIDCOLS - 1)

InGrid(c) == c \in Cells

\* a wall test that is off by one on the far sides
IsBorder_OffByOne(i, j) ==
    i = 0 \/ j = 0 \/ i = GAMEGRIDROWS \/ j = GAMEGRIDCOLS

\* initializeGameGrid / resetGameGrid: the wall test of one cell
IsBorder(i, j) ==
    i = 0 \/ j = 0 \/ i = GAMEGRIDROWS - 1 \/ j = GAMEGRIDCOLS - 1

BorderCells == {c \in Cells : IsBorder(c[1], c[2])}

Node(x, y, px, py) == [x |-> x, y |-> y, prev_x |-> px, prev_y |-> py]

Pos(n) == <<n.x, n.y>>

----------------------------------------------------------------------------
(* Snake movement: moveSnake *)

\* moveSnake, the head: prev := current, then one step along the direction
HeadStep(h, dir) ==
    IF dir = DIRECTION_UP THEN Node(h.x, h.y - 1, h.x, h.y)
    ELSE IF dir = DIRECTION_DOWN THEN Node(h.x, h.y + 1, h.x, h.y)
    ELSE IF dir = DIRECTION_LEFT THEN Node(h.x - 1, h.y, h.x, h.y)
    ELSE IF dir = DIRECTION_RIGHT THEN Node(h.x + 1, h.y, h.x, h.y)
    ELSE Node(h.x, h.y, h.x, h.y)

\* a body node that takes the predecessor's stale prev instead
FollowStep_Stale(n, before) == Node(before.prev_x, before.prev_y, n.x, n.y)

\* moveSnake, one body node: prev := current, current := prevNode->prev
\* (prevNode was updated before, so its prev is its position before the call)
FollowStep(n, before) == Node(before.x, before.y, n.x, n.y)

\* moveSnake: the list after the call
moveSnake(s, dir) ==
    [k \in 1 .. Len(s) |->
        IF k = 1 THEN HeadStep(s[1], dir) ELSE FollowStep(s[k], s[k - 1])]

\* moveSnake: containsHead cleared at the old head cell, set at the new one.
\* A write outside the grid does not reach any cell of the grid.
MoveHeadFlag(H, old, new) == (H \ {old}) \cup ({new} \cap Cells)

\* moveSnake, the while loop from node k on: containsSnake cleared at the
\* node's old cell, set at its new cell, in list order.
RECURSIVE MoveBodyFlags(_, _, _)
MoveBodyFlags(S, s, k) ==
    IF k > Len(s) THEN S
    ELSE MoveBodyFlags((S \ {Pos(s[k])}) \cup ({Pos(s[k - 1])} \cap Cells), s, k + 1)

\* moveSnake indexes the grid with every node's old position and with the
\* new head position (the new body positions are old positions).
MoveAccesses(s, dir) == {Pos(s[k]) : k \in 1 .. Len(s)} \cup {Pos(HeadStep(s[1], dir))}

----------------------------------------------------------------------------
(* Collision test: collisionCheck *)

ScanI(k) == ((k - 1) \div (2 * COLLISION_RANGE + 1)) - COLLISION_RANGE
ScanJ(k) == ((k - 1) % (2 * COLLISION_RANGE + 1)) - COLLISION_RANGE
ScanLast == (2 * COLLISION_RANGE + 1) * (2 * COLLISION_RANGE + 1)

\* The nested for loops from the k-th scanned cell on: the set of values the
\* function can return.  A cell inside the grid is read as it is; a cell
\* outside the grid is an out-of-bounds read whose two flags hold any value.
RECURSIVE ScanResults(_, _, _, _)
ScanResults(h, k, wall, fruit) ==
    IF k > ScanLast THEN {NO_COLLISION}
    ELSE LET i == ScanI(k)
             j == ScanJ(k)
             c == <<h[1] + i, h[2] + j>>
             rest == ScanResults(h, k + 1, wall, fruit)
         IN  IF InGrid(c)
             THEN IF c \in wall
                  THEN IF i # 0 /\ j # 0 THEN {COLLISION} ELSE rest
                  ELSE IF c \in fruit THEN {EATS_FRUIT} ELSE rest
             ELSE (IF i # 0 /\ j # 0 THEN {COLLISION} ELSE {}) \cup {EATS_FRUIT} \cup rest

\* collisionCheck: the values it can return for head cell h
collisionCheck(h, snk, wall, fruit) ==
    IF InGrid(h)
    THEN IF h \in snk THEN {COLLISION} ELSE ScanResults(h, 1, wall, fruit)
    ELSE {COLLISION} \cup ScanResults(h, 1, wall, fruit)

\* the cells the scan indexes from its k-th cell on: it stops at the cell
\* that makes it return
RECURSIVE ScanAccesses(_, _, _, _)
ScanAccesses(h, k, wall, fruit) ==
    IF k > ScanLast THEN {}
    ELSE LET i == ScanI(k)
             j == ScanJ(k)
             c == <<h[1] + i, h[2] + j>>
             rest == ScanAccesses(h, k + 1, wall, fruit)
         IN  IF InGrid(c)
             THEN IF c \in wall
                  THEN IF i # 0 /\ j # 0 THEN {c} ELSE {c} \cup rest
                  ELSE IF c \in fruit THEN {c} ELSE {c} \cup rest
             ELSE {c} \cup rest

\* the cells collisionCheck indexes
CheckAccesses(h, snk, wall, fruit) ==
    {h} \cup (IF InGrid(h) /\ h \in snk THEN {} ELSE ScanAccesses(h, 1, wall, fruit))

----------------------------------------------------------------------------
(* Fruit placement: generateCoordinate *)

\* a column drawn from the whole width of the grid
FruitX_NoMargin(r) == r % GAMEGRIDCOLS

FruitX(r) == (r % (GAMEGRIDCOLS - (2 * FRUIT_MARGIN))) + FRUIT_MARGIN
FruitY(r) == (r % (GAMEGRIDROWS - (2 * FRUIT_MARGIN))) + FRUIT_MARGIN

\* the values rand() returns in the model: both ends of its range
RandVals == {0, RandMax}

\* a rejection test that only refuses the head's own cell
coordinate_invalid_HeadOnly(c, h) == c[1] = h[1] /\ c[2] = h[2]

\* a rejection test whose window is as wide as the grid
coordinate_invalid_WholeGrid(c, h) ==
    \E i \in -GRIDSIDE .. GRIDSIDE, j \in -GRIDSIDE .. GRIDSIDE :
        c[1] + i = h[1] /\ c[2] + j = h[2]

\* the inner loops: the candidate is rejected when the head lies in the
\* window of radius COLLISION_RANGE around it
coordinate_invalid(c, h) ==
    \E i \in -COLLISION_RANGE .. COLLISION_RANGE, j \in -COLLISION_RANGE .. COLLISION_RANGE :
        c[1] + i = h[1] /\ c[2] + j = h[2]

\* generateCoordinate: the coordinates the rejection loop can return
generateCoordinate(h) ==
    {c \in {<<FruitX(r1), FruitY(r2)>> : r1 \in RandVals, r2 \in RandVals} :
        ~coordinate_invalid(c, h)}

----------------------------------------------------------------------------
(* Growth: extendSnake *)

TailNode(s) == s[Len(s)]

\* a new node created on the tail's own cell
NewTail_OnTail(t) == Node(t.x, t.y, t.x, t.y)

\* the node extendSnake creates behind tail t
NewTail(t) == Node(t.prev_x, t.prev_y, t.prev_x, t.prev_y)

\* extendSnake when malloc returns a fresh node
extendSnake(s) == Append(s, NewTail(TailNode(s)))

\* extendSnake when snake.node dangles and malloc returns that very node:
\* createSnakeNode overwrites the head with the new tail's data and sets its
\* nextNode to NULL, so the list seen from snake.node is that one node.
extendAliased(s) == <<NewTail(TailNode(s))>>

----------------------------------------------------------------------------
(* Game status: togglePause *)

togglePause(st) == IF st = PAUSE_GAME THEN START_GAME ELSE PAUSE_GAME

\* a toggle that forgets to kill the timer when it pauses
togglePauseTimers_NoKill(st, T) ==
    IF st = PAUSE_GAME THEN T \cup {GAME_TIMER_NORMAL_SPEED_ID} ELSE T

togglePauseTimers(st, T) ==
    IF st = PAUSE_GAME THEN T \cup {GAME_TIMER_NORMAL_SPEED_ID}
    ELSE T \ {GAME_TIMER_NORMAL_SPEED_ID}

----------------------------------------------------------------------------
(* Initial state: gameSetup (initializeGame, initializeSnake, initializeFruit) *)

StartCell == <<SNAKEHEADSTARTX, SNAKEHEADSTARTY>>

StartNode == Node(SNAKEHEADSTARTX, SNAKEHEADSTARTY, SNAKEHEADSTARTX, SNAKEHEADSTARTY)

\* the process has ended with status p during gameSetup after a malloc
\* returned NULL; calls is the number of logError calls made
NoMemory(p, calls) ==
    /\ proc = p
    /\ gameStatus = 0
    /\ score = 0
    /\ fruitLoc = <<0, 0>>
    /\ containsHead = {}
    /\ containsSnake = {}
    /\ containsWall = {}
    /\ containsFruit = {}
    /\ segs = <<>>
    /\ movement_direction = 0
    /\ timers = {}
    /\ headFreed = FALSE
    /\ selfLoop = FALSE
    /\ ghost = 0
    /\ boost = FALSE
    /\ boost_depleted = FALSE
    /\ boost_recharging = FALSE
    /\ energy_level = 0
    /\ mallocFailed = TRUE
    /\ logErrorCalls = calls
    /\ wmDestroys = 0

\* gameSetup when a malloc returns NULL.  initializeGameGrid uses both of its
\* malloc results unchecked.  createSnakeNode calls logError, which writes the
\* log and calls exit(1), or, when it cannot open the log, returns to
\* createSnakeNode, which writes through the NULL pointer.
gameSetupFails ==
    \/ NoMemory("crashed", 0)
    \/ NoMemory("exited", 1)
    \/ NoMemory("crashed", 1)

\* gameSetup when every malloc succeeds
gameSetup ==
    /\ mallocFailed = FALSE
    /\ logErrorCalls = 0
    /\ wmDestroys = 0
    /\ gameStatus = PAUSE_GAME
    /\ score = 0
    /\ containsWall = BorderCells
    /\ containsSnake = {}
    /\ containsHead = {StartCell}
    /\ segs = <<StartNode>>
    /\ movement_direction = DIRECTION_UP
    /\ fruitLoc \in generateCoordinate(StartCell)
    /\ containsFruit = {fruitLoc}
    /\ timers = {}
    /\ headFreed = FALSE
    /\ selfLoop = FALSE
    /\ proc = "running"
    /\ ghost = 0
    /\ boost = FALSE
    /\ boost_depleted = FALSE
    /\ boost_recharging = FALSE
    /\ energy_level = MAX_ENERGY

Init == gameSetup \/ gameSetupFails

----------------------------------------------------------------------------
(* The frame engine: generateNextFrame *)

\* the model follows a game that was resumed from GAME_OVER, or whose head
\* node was freed, for MaxGhost frames: once ghost exceeds MaxGhost no further
\* event is explored
GhostStep(g) == IF g = 0 THEN 0 ELSE g + 1

gameVars == <<gameStatus, score, fruitLoc, containsHead, containsSnake, containsWall,
              containsFruit, segs, movement_direction, timers, headFreed, selfLoop>>

\* the process has ended with status p ("crashed": an invalid access ended it,
\* "exited": exit(1) in logError): its memory is gone with it
Ended(p, failed, calls) ==
    /\ proc' = p
    /\ mallocFailed' = failed
    /\ logErrorCalls' = calls
    /\ gameStatus' = 0
    /\ score' = 0
    /\ fruitLoc' = <<0, 0>>
    /\ containsHead' = {}
    /\ containsSnake' = {}
    /\ containsWall' = {}
    /\ containsFruit' = {}
    /\ segs' = <<>>
    /\ movement_direction' = 0
    /\ timers' = {}
    /\ headFreed' = FALSE
    /\ selfLoop' = FALSE
    /\ ghost' = 0
    /\ boost' = FALSE
    /\ boost_depleted' = FALSE
    /\ boost_recharging' = FALSE
    /\ energy_level' = 0

\* undefined behaviour ended the process
Crash == Ended("crashed", mallocFailed, logErrorCalls) /\ UNCHANGED wmDestroys

\* malloc returns NULL in createSnakeNode: logError writes the log and calls
\* exit(1), or cannot open the log and returns, and createSnakeNode writes
\* through the NULL pointer
createSnakeNodeFails ==
    /\ \/ Ended("exited", TRUE, logErrorCalls + 1)
       \/ Ended("crashed", TRUE, logErrorCalls + 1)
    /\ UNCHANGED wmDestroys

\* moveSnake never leaves its while loop: the list is a cycle
Hang ==
    /\ proc' = "hung"
    /\ UNCHANGED <<gameVars, ghost, boostVars, mallocFailed, logErrorCalls, wmDestroys>>

\* an eatFruit that leaves the flag of the eaten fruit set
eatFruit_KeepsOldFruit(moved, H, S) ==
    /\ Len(moved) < MaxLen
    /\ score < SCORE_INCREMENT * (MaxLen - 1)
    /\ score' = score + SCORE_INCREMENT
    /\ \/ /\ segs' = extendSnake(moved)
          /\ UNCHANGED <<headFreed, selfLoop>>
       \/ /\ headFreed
          /\ segs' = extendAliased(moved)
          /\ headFreed' = FALSE
          /\ selfLoop' = (Len(moved) = 1)
    /\ fruitLoc' \in generateCoordinate(Pos(segs'[1]))
    /\ containsFruit' = containsFruit \cup {fruitLoc'}
    /\ containsHead' = H
    /\ containsSnake' = S
    /\ UNCHANGED <<gameStatus, containsWall, movement_direction, timers, proc,
                   mallocFailed, logErrorCalls, wmDestroys>>

\* eatFruit after the move: fruit flag cleared, incrementScore, extendSnake,
\* generateFruit.  moved, H, S are the list and the flags after moveSnake.
eatFruit(moved, H, S) ==
    /\ Len(moved) < MaxLen
    /\ score < SCORE_INCREMENT * (MaxLen - 1)
    /\ score' = score + SCORE_INCREMENT
    /\ \/ /\ segs' = extendSnake(moved)
          /\ UNCHANGED <<headFreed, selfLoop>>
       \/ /\ headFreed
          /\ segs' = extendAliased(moved)
          /\ headFreed' = FALSE
          /\ selfLoop' = (Len(moved) = 1)
    /\ fruitLoc' \in generateCoordinate(Pos(segs'[1]))
    /\ containsFruit' = (containsFruit \ {fruitLoc}) \cup {fruitLoc'}
    /\ containsHead' = H
    /\ containsSnake' = S
    /\ UNCHANGED <<gameStatus, containsWall, movement_direction, timers, proc,
                   mallocFailed, logErrorCalls, wmDestroys>>

\* the cells moveSnake and collisionCheck index in one frame
FrameAccesses ==
    MoveAccesses(segs, movement_direction) \cup
    CheckAccesses(Pos(moveSnake(segs, movement_direction)[1]),
                  MoveBodyFlags(containsSnake, segs, 2), containsWall, containsFruit)

generateNextFrame ==
    LET moved == moveSnake(segs, movement_direction)
        h == Pos(moved[1])
        H == MoveHeadFlag(containsHead, Pos(segs[1]), h)
        S == MoveBodyFlags(containsSnake, segs, 2)
        outside == FrameAccesses \ Cells
    IN  IF selfLoop THEN Hang
        ELSE /\ ghost <= MaxGhost
             /\ \/ outside # {} /\ Crash
                \/ /\ EATS_FRUIT \in collisionCheck(h, S, containsWall, containsFruit)
                   /\ createSnakeNodeFails
                \/ \E collisionVal \in collisionCheck(h, S, containsWall, containsFruit) :
                     /\ ghost' = GhostStep(ghost)
                     /\ \/ /\ collisionVal = COLLISION
                           /\ gameStatus' = GAME_OVER
                           /\ segs' = moved
                           /\ containsHead' = H
                           /\ containsSnake' = S
                           /\ UNCHANGED <<score, fruitLoc, containsWall, containsFruit,
                                          movement_direction, timers, headFreed,
                                          selfLoop, proc, mallocFailed, logErrorCalls, wmDestroys>>
                        \/ /\ collisionVal = EATS_FRUIT
                           /\ eatFruit(moved, H, S)
                        \/ /\ collisionVal = NO_COLLISION
                           /\ segs' = moved
                           /\ containsHead' = H
                           /\ containsSnake' = S
                           /\ UNCHANGED <<gameStatus, score, fruitLoc, containsWall,
                                          containsFruit, movement_direction, timers,
                                          headFreed, selfLoop, proc, mallocFailed,
                                          logErrorCalls, wmDestroys>>

----------------------------------------------------------------------------
(* Events of SnakeWindowProc *)

\* what a timer handler leaves in the boost fields once generateNextFrame has
\* returned: e is the energy level after the handler's updateEnergyLevel call
AfterFrame(e) ==
    IF proc' = "running"
    THEN energy_level' = e /\ UNCHANGED <<boost, boost_depleted, boost_recharging>>
    ELSE TRUE

\* a normal-speed handler that does not look at the boost flag
TimerNormal_IgnoresBoost ==
    /\ proc = "running"
    /\ NORMAL_TICK_SPEED_TIMER_ID \in timers
    /\ gameStatus = START_GAME
    /\ generateNextFrame
    /\ AfterFrame(energy_level)

\* WM_TIMER, NORMAL_TICK_SPEED_TIMER_ID
TimerNormal ==
    /\ proc = "running"
    /\ NORMAL_TICK_SPEED_TIMER_ID \in timers
    /\ boost = FALSE
    /\ gameStatus = START_GAME
    /\ generateNextFrame
    /\ AfterFrame(energy_level)

\* WM_TIMER, NORMAL_TICK_SPEED_TIMER_ID while boosting or while the game is not
\* running
TimerIdle ==
    /\ proc = "running"
    /\ ghost <= MaxGhost
    /\ NORMAL_TICK_SPEED_TIMER_ID \in timers
    /\ (boost \/ gameStatus # START_GAME)
    /\ UNCHANGED vars

\* WM_KEYDOWN, W/A/S/D or an arrow key
KeyDirection ==
    /\ proc = "running"
    /\ ghost <= MaxGhost
    /\ \E d \in Directions :
         movement_direction' = IF gameStatus # PAUSE_GAME THEN d ELSE movement_direction
    /\ UNCHANGED <<gameStatus, score, fruitLoc, containsHead, containsSnake,
                   containsWall, containsFruit, segs, timers, headFreed, selfLoop,
                   proc, ghost, boostVars, mallocFailed, logErrorCalls, wmDestroys>>

\* WM_KEYDOWN, VK_RETURN
KeyReturn ==
    /\ proc = "running"
    /\ ghost <= MaxGhost
    /\ ghost' = IF gameStatus = GAME_OVER /\ ghost = 0 THEN 1 ELSE ghost
    /\ gameStatus' = togglePause(gameStatus)
    /\ timers' = togglePauseTimers(gameStatus, timers)
    /\ UNCHANGED <<score, fruitLoc, containsHead, containsSnake, containsWall,
                   containsFruit, segs, movement_direction, headFreed, selfLoop, proc,
                   boostVars, mallocFailed, logErrorCalls, wmDestroys>>

\* WM_COMMAND, ID_RESET_GAME: gameStatus = PAUSE_GAME; resetGame (resetGameGrid,
\* resetSnake, generateFruit).  resetSnake frees the node snake.node points to
\* as soon as the list has a second node and then writes through snake.node.
\* resetSnake's free loop: the list positions of the nodes it passes to free().
\* Each pass frees freeNode, which starts at the head and then follows node,
\* already advanced past the first tail node: the head and the nodes from the
\* third on are freed, the second node never is.
resetSnakeFrees(s) == IF Len(s) > 1 THEN {1} \cup (3 .. Len(s)) ELSE {}

ResetCommand ==
    /\ proc = "running"
    /\ ghost <= MaxGhost
    /\ IF selfLoop THEN Crash \/ Hang
       ELSE \/ (1 \in resetSnakeFrees(segs) \/ headFreed) /\ Crash
            \/ /\ gameStatus' = PAUSE_GAME
               /\ score' = 0
               /\ containsWall' = BorderCells
               /\ containsSnake' = {}
               /\ containsHead' = {StartCell}
               /\ segs' = <<StartNode>>
               /\ movement_direction' = DIRECTION_UP
               /\ fruitLoc' \in generateCoordinate(StartCell)
               /\ containsFruit' = {fruitLoc'}
               /\ headFreed' = (headFreed \/ 1 \in resetSnakeFrees(segs))
               /\ ghost' = IF headFreed' THEN (IF ghost = 0 THEN 1 ELSE ghost) ELSE 0
               /\ UNCHANGED <<timers, selfLoop, proc, boostVars, mallocFailed,
                              logErrorCalls, wmDestroys>>

\* the windows whose class is registered with SnakeWindowProc: main, menu,
\* game container, data display, game field, energy
SnakeWindows == 6

\* WM_DESTROY: windowCleanUp, freeGameData, PostQuitMessage.  Destroying the
\* main window sends the message to it and then to each of its descendants.
\* The first call of freeGameData frees the rows, the grid and the snake and
\* sets snake.node to NULL.  A later call reads the rows through the freed
\* grid pointer and frees them again, then calls freeSnake with snake.node
\* NULL: logError writes the log and calls exit(1), or cannot open the log and
\* returns, and the handler completes.
WmDestroy ==
    /\ wmDestroys < SnakeWindows
    /\ wmDestroys' = wmDestroys + 1
    /\ \/ /\ proc = "running"
          /\ ghost <= MaxGhost
          /\ \/ (headFreed \/ selfLoop) /\ Ended("crashed", mallocFailed, logErrorCalls)
             \/ ~selfLoop /\ Ended("closing", mallocFailed, logErrorCalls)
       \/ /\ proc = "closing"
          /\ \/ Ended("crashed", mallocFailed, logErrorCalls)
             \/ Ended("exited", mallocFailed, logErrorCalls + 1)
             \/ Ended("closing", mallocFailed, logErrorCalls + 1)

\* wWinMain: GetMessage returns 0 for WM_QUIT once the windows are destroyed
WinMainReturns ==
    /\ proc = "closing"
    /\ wmDestroys = SnakeWindows
    /\ Ended("returned", mallocFailed, logErrorCalls)
    /\ UNCHANGED wmDestroys

Next ==
    \/ TimerNormal
    \/ TimerIdle
    \/ KeyDirection
    \/ KeyReturn
    \/ ResetCommand
    \/ WmDestroy
    \/ WinMainReturns

Spec == Init /\ [][Next]_vars

----------------------------------------------------------------------------
(* Boost and energy.  setBoost, disableBoost, startBoostRecharge,
   stopBoostRecharge, setBoostDepleted and updateEnergyLevel are called by
   SnakeWindowProc but defined in no file of src/; they are written here from
   section 4.5 of the specification.  b is the record of the fields they touch. *)

BoostState ==
    [boost |-> boost, boost_depleted |-> boost_depleted,
     boost_recharging |-> boost_recharging, energy_level |-> energy_level,
     timers |-> timers]

SetBoostState(b) ==
    /\ boost' = b.boost
    /\ boost_depleted' = b.boost_depleted
    /\ boost_recharging' = b.boost_recharging
    /\ energy_level' = b.energy_level
    /\ timers' = b.timers

setBoost(b) ==
    [b EXCEPT !.boost = TRUE, !.timers = @ \cup {GAME_TIMER_BOOST_ID}]

disableBoost(b) ==
    [b EXCEPT !.boost = FALSE, !.timers = @ \ {GAME_TIMER_BOOST_ID}]

startBoostRecharge(b) ==
    [b EXCEPT !.boost_recharging = TRUE, !.timers = @ \cup {GAME_TIMER_BOOST_RECHARGE_ID}]

stopBoostRecharge(b) ==
    [b EXCEPT !.boost_recharging = FALSE, !.timers = @ \ {GAME_TIMER_BOOST_RECHARGE_ID}]

setBoostDepleted(b) ==
    [b EXCEPT !.boost_depleted = TRUE, !.boost = FALSE]

\* the amounts one updateEnergyLevel call may add or take
EnergySteps == 1 .. MaxEnergyStep

\* an update that forgets the floor of the gauge
updateEnergyLevel_NoFloor(b, d) ==
    IF b.boost
    THEN [b EXCEPT !.energy_level = @ - d]
    ELSE IF b.boost_recharging
         THEN IF b.energy_level + d >= MAX_ENERGY
              THEN stopBoostRecharge([b EXCEPT !.energy_level = MAX_ENERGY])
              ELSE [b EXCEPT !.energy_level = @ + d]
         ELSE b

\* energy falls while boosting and rises while recharging, clamped to
\* [0, MAX_ENERGY]; a full gauge ends the recharge
updateEnergyLevel(b, d) ==
    IF b.boost
    THEN [b EXCEPT !.energy_level = IF @ - d < 0 THEN 0 ELSE @ - d]
    ELSE IF b.boost_recharging
         THEN IF b.energy_level + d >= MAX_ENERGY
              THEN stopBoostRecharge([b EXCEPT !.energy_level = MAX_ENERGY])
              ELSE [b EXCEPT !.energy_level = @ + d]
         ELSE b

boardVars == <<gameStatus, score, fruitLoc, containsHead, containsSnake, containsWall,
               containsFruit, segs, movement_direction, headFreed, selfLoop, proc, ghost,
               mallocFailed, logErrorCalls, wmDestroys>>

\* WM_KEYDOWN, VK_SHIFT
KeyShiftDown ==
    /\ proc = "running"
    /\ ghost <= MaxGhost
    /\ SetBoostState(IF boost_depleted = FALSE
                     THEN IF setBoost(BoostState).boost_recharging
                          THEN stopBoostRecharge(setBoost(BoostState))
                          ELSE setBoost(BoostState)
                     ELSE BoostState)
    /\ UNCHANGED boardVars

\* WM_KEYUP, VK_SHIFT.  The case has no return: control falls into WM_TIMER with
\* the key code as timer id, which is the id of no timer.
KeyShiftUp ==
    /\ proc = "running"
    /\ ghost <= MaxGhost
    /\ LET b1 == [disableBoost(BoostState) EXCEPT !.boost_depleted = FALSE]
       IN  SetBoostState(IF b1.boost_recharging = FALSE THEN startBoostRecharge(b1) ELSE b1)
    /\ UNCHANGED boardVars

\* a boost tick that advances the frame in every status
TimerBoost_AnyStatus ==
    /\ proc = "running"
    /\ ghost <= MaxGhost
    /\ GAME_TIMER_BOOST_ID \in timers
    /\ IF boost
       THEN \E d \in EnergySteps :
              IF energy_level > 0 /\ gameStatus # GAME_OVER
              THEN /\ generateNextFrame
                   /\ AfterFrame(updateEnergyLevel(BoostState, d).energy_level)
              ELSE /\ SetBoostState(updateEnergyLevel(BoostState, d))
                   /\ UNCHANGED boardVars
       ELSE UNCHANGED vars

\* a boost handler that generates the frame without looking at the gauge
TimerBoost_NoEnergyTest ==
    /\ proc = "running"
    /\ ghost <= MaxGhost
    /\ GAME_TIMER_BOOST_ID \in timers
    /\ IF boost
       THEN \E d \in EnergySteps :
              IF gameStatus = START_GAME
              THEN /\ generateNextFrame
                   /\ AfterFrame(updateEnergyLevel(BoostState, d).energy_level)
              ELSE /\ SetBoostState(updateEnergyLevel(BoostState, d))
                   /\ UNCHANGED boardVars
       ELSE UNCHANGED vars

\* WM_TIMER, GAME_TIMER_BOOST_ID
TimerBoost ==
    /\ proc = "running"
    /\ ghost <= MaxGhost
    /\ GAME_TIMER_BOOST_ID \in timers
    /\ IF boost
       THEN \E d \in EnergySteps :
              IF gameStatus = START_GAME /\ energy_level > 0
              THEN /\ generateNextFrame
                   /\ AfterFrame(updateEnergyLevel(BoostState, d).energy_level)
              ELSE /\ SetBoostState(updateEnergyLevel(
                          IF gameStatus = START_GAME
                          THEN startBoostRecharge(setBoostDepleted(BoostState))
                          ELSE BoostState, d))
                   /\ UNCHANGED boardVars
       ELSE UNCHANGED vars

\* WM_TIMER, GAME_TIMER_BOOST_RECHARGE_ID
TimerRecharge ==
    /\ proc = "running"
    /\ ghost <= MaxGhost
    /\ GAME_TIMER_BOOST_RECHARGE_ID \in timers
    /\ IF boost_recharging
       THEN /\ \E d \in EnergySteps : SetBoostState(updateEnergyLevel(BoostState, d))
            /\ UNCHANGED boardVars
       ELSE UNCHANGED vars

\* the game with the boost key and all three timers, played without steering
NextBoost ==
    \/ KeyReturn
    \/ TimerNormal
    \/ TimerIdle
    \/ KeyShiftDown
    \/ KeyShiftUp
    \/ TimerBoost
    \/ TimerRecharge

SpecBoost == Init /\ [][NextBoost]_vars

----------------------------------------------------------------------------
(* Claims *)

Alive == proc = "running"

\* the cells occupied by the non-head nodes of list s
BodyCells(s) == {Pos(s[k]) : k \in 2 .. Len(s)}

\* the list moveSnake leaves behind in the current state
Moved == moveSnake(segs, movement_direction)

\* a frame that ran to its end
FrameStep == TimerNormal /\ proc' = "running"

\* C1 (as claimed): on every tick in status RUNNING, if after the move the head's
\* cell is a wall cell or is occupied by a body segment, the status becomes
\* GAME_OVER and the tick changes nothing but the move: score, number of segments
\* and fruit location stay.  Stated for games that were never resumed from
\* GAME_OVER and whose head node is valid (ghost = 0).
C1_CollisionEndsGame ==
    [][(FrameStep /\ ghost = 0
          /\ (Pos(Moved[1]) \in containsWall \/ Pos(Moved[1]) \in BodyCells(Moved)))
        => (/\ gameStatus' = GAME_OVER
            /\ score' = score
            /\ Len(segs') = Len(segs)
            /\ fruitLoc' = fruitLoc)]_vars

\* C2 (as claimed): once the status is GAME_OVER, every event leaves the status
\* GAME_OVER and the snake where it is, except the reset command (and the
\* destruction of the window, which ends the game altogether).
C2_GameOverTerminal ==
    [][(Alive /\ gameStatus = GAME_OVER)
        => ((gameStatus' = GAME_OVER /\ segs' = segs) \/ ResetCommand \/ WmDestroy)]_vars

\* C3: one moveSnake call moves the head by exactly one cell along the stored
\* direction (UP: y-1, DOWN: y+1, LEFT: x-1, RIGHT: x+1), puts every other node
\* where its predecessor was before the call, and leaves in every node's
\* prev_x/prev_y the node's own position before the call.  Observed on the frames
\* in which nothing but moveSnake touches the list (no fruit eaten).
C3_MoveGeometry ==
    [][(score' = score /\ segs' # segs /\ FrameStep)
        => (/\ Len(segs') = Len(segs)
            /\ segs'[1].x = segs[1].x
                   + (IF movement_direction = DIRECTION_RIGHT THEN 1 ELSE 0)
                   - (IF movement_direction = DIRECTION_LEFT THEN 1 ELSE 0)
            /\ segs'[1].y = segs[1].y
                   + (IF movement_direction = DIRECTION_DOWN THEN 1 ELSE 0)
                   - (IF movement_direction = DIRECTION_UP THEN 1 ELSE 0)
            /\ \A k \in 2 .. Len(segs) :
                   segs'[k].x = segs[k - 1].x /\ segs'[k].y = segs[k - 1].y
            /\ \A k \in 1 .. Len(segs) :
                   segs'[k].prev_x = segs[k].x /\ segs'[k].prev_y = segs[k].y)]_vars

\* C3 witness: a running snake of at least three nodes that has just moved left
\* and whose second and third node each stand where their predecessor stood.
C3_Witness ==
    /\ Alive
    /\ gameStatus = START_GAME
    /\ Len(segs) >= 3
    /\ segs[1].x = segs[1].prev_x - 1
    /\ segs[2].x = segs[1].prev_x /\ segs[2].y = segs[1].prev_y
    /\ segs[3].x = segs[2].prev_x /\ segs[3].y = segs[2].prev_y
    /\ Pos(segs[3]) # <<segs[3].prev_x, segs[3].prev_y>>

\* C4 (as claimed): on every tick in which fruit is eaten the list is the moved
\* list plus exactly one node, appended behind the former tail at the former
\* tail's previous position; the score grows by the increment; the eaten fruit's
\* cell loses its fruit flag unless the new fruit is placed on it.
C4_EatGrowsByOne ==
    [][(FrameStep /\ score' # score)
        => (/\ segs' = Append(Moved, Node(Moved[Len(Moved)].prev_x, Moved[Len(Moved)].prev_y,
                                           Moved[Len(Moved)].prev_x, Moved[Len(Moved)].prev_y))
            /\ score' = score + 10
            /\ (fruitLoc \notin containsFruit' \/ fruitLoc' = fruitLoc))]_vars

\* C5 (as claimed): the reset command, from any state, leaves status PAUSED,
\* score 0, the wall flag on exactly the border cells, no body flag, the head flag
\* on exactly the start cell, a list of exactly one node at the start cell with
\* prev equal to current, direction UP, and exactly one fruit, placed outside the
\* window around the head.
C5_ResetPost ==
    [][ResetCommand
        => (/\ proc' = "running"
            /\ gameStatus' = PAUSE_GAME
            /\ score' = 0
            /\ containsWall' = {c \in Cells : c[1] \in {0, GRIDSIDE - 1} \/ c[2] \in {0, GRIDSIDE - 1}}
            /\ containsSnake' = {}
            /\ containsHead' = {<<GRIDSIDE \div 2, GRIDSIDE \div 2>>}
            /\ Len(segs') = 1
            /\ Pos(segs'[1]) = <<GRIDSIDE \div 2, GRIDSIDE \div 2>>
            /\ segs'[1].prev_x = segs'[1].x /\ segs'[1].prev_y = segs'[1].y
            /\ movement_direction' = DIRECTION_UP
            /\ containsFruit' = {fruitLoc'})]_vars

\* the fruit lies outside the 3x3 window around the head
FruitFarFromHead(f, s) ==
    (f[1] - s[1].x > 1) \/ (s[1].x - f[1] > 1) \/ (f[2] - s[1].y > 1) \/ (s[1].y - f[2] > 1)

\* C6: whenever a fruit is placed (setup, after eating, reset) the chosen cell is
\* neither the head's cell nor one of its 8 neighbours in the state in which it
\* is placed.
C6_FruitPlacedFar ==
    /\ (Alive => FruitFarFromHead(fruitLoc, segs))
    /\ [][(Alive' /\ (fruitLoc' # fruitLoc \/ score' # score
                        \/ (gameStatus' = PAUSE_GAME /\ ResetCommand)))
            => FruitFarFromHead(fruitLoc', segs')]_vars

\* C6 witness: a fruit was just placed after eating (the appended node has not
\* moved yet) and the rejection loop had a candidate to reject.
C6_Witness ==
    /\ Alive
    /\ Len(segs) = 2
    /\ Pos(segs[2]) = <<segs[2].prev_x, segs[2].prev_y>>
    /\ \E r1 \in RandVals, r2 \in RandVals :
          ~FruitFarFromHead(<<FruitX(r1), FruitY(r2)>>, segs)
    /\ fruitLoc \in containsFruit

C8_BodyFlagsExact ==
    [][(score' = score /\ segs' # segs /\ FrameStep)
        => containsSnake' = BodyCells(segs')]_vars

\* C9 (as claimed): between events exactly one cell has containsHead set, the
\* cell of the head node.
C9_OneHeadCell == Alive => containsHead = {Pos(segs[1])}

\* C10: a cell has containsWall set exactly when its row or column index is 0 or
\* the last index of the grid.
C10_WallsAreBorder ==
    Alive => \A c \in Cells :
                c \in containsWall <=> (c[1] \in {0, GRIDSIDE - 1} \/ c[2] \in {0, GRIDSIDE - 1})

\* C10 witness: a game in which fruit was eaten was reset, started again and has
\* generated a frame since.
C10_Witness ==
    /\ Alive
    /\ headFreed
    /\ ghost > 1
    /\ gameStatus = START_GAME
    /\ Pos(segs[1]) # StartCell

\* the state gameSetup leaves, whatever the status and the timers: one node on
\* the start cell heading up, nothing eaten, the head node valid
AfterSetup ==
    /\ Alive
    /\ segs = <<StartNode>>
    /\ movement_direction = DIRECTION_UP
    /\ score = 0
    /\ containsHead = {StartCell}
    /\ containsSnake = {}
    /\ containsFruit = {fruitLoc}
    /\ headFreed = FALSE
    /\ ghost = 0

\* C11 (as claimed): from the state after setup, with any fruit the placement
\* routine can produce, the first tick moves the head one cell up and changes
\* nothing else: score, number of nodes and fruit location stay, and no grid flag
\* changes but the head flag of the start cell and of the cell above it.
C11_FirstTick ==
    [][(AfterSetup /\ FrameStep)
        => (/\ Pos(segs'[1]) = <<GRIDSIDE \div 2, (GRIDSIDE \div 2) - 1>>
            /\ score' = score
            /\ Len(segs') = 1
            /\ fruitLoc' = fruitLoc
            /\ containsHead' = {<<GRIDSIDE \div 2, (GRIDSIDE \div 2) - 1>>}
            /\ containsSnake' = containsSnake
            /\ containsWall' = containsWall
            /\ containsFruit' = containsFruit)]_vars

\* C12: Enter in status PAUSED sets RUNNING and arms the frame timer; Enter in
\* status RUNNING sets PAUSED and kills that timer; in both cases the snake, the
\* grid flags, the score and the fruit stay as they are.
C12_PauseToggle ==
    [][((gameStatus = PAUSE_GAME \/ gameStatus = START_GAME) /\ KeyReturn)
        => (/\ gameStatus = PAUSE_GAME
                 => (gameStatus' = START_GAME /\ timers' = timers \cup {GAME_TIMER_NORMAL_SPEED_ID})
            /\ gameStatus = START_GAME
                 => (gameStatus' = PAUSE_GAME /\ timers' = timers \ {GAME_TIMER_NORMAL_SPEED_ID})
            /\ segs' = segs
            /\ movement_direction' = movement_direction
            /\ score' = score
            /\ fruitLoc' = fruitLoc
            /\ containsHead' = containsHead
            /\ containsSnake' = containsSnake
            /\ containsWall' = containsWall
            /\ containsFruit' = containsFruit)]_vars

\* C12 witness: a game that was started with Enter, has eaten, and was paused
\* with Enter: the timer is killed and the two-node snake is still there.
C12_Witness ==
    /\ Alive
    /\ gameStatus = PAUSE_GAME
    /\ timers = {}
    /\ Len(segs) = 2
    /\ ghost = 0

C14_DepletedTick ==
    [][(boost /\ gameStatus = START_GAME /\ energy_level = 0 /\ TimerBoost)
        => (/\ segs' = segs
            /\ containsHead' = containsHead
            /\ containsSnake' = containsSnake
            /\ gameStatus' = gameStatus
            /\ boost_depleted' = TRUE
            /\ boost_recharging' = TRUE
            /\ energy_level' >= 0)]_vars

\* C14 witness: the gauge was emptied while the game was paused, the game was
\* started, and the boost timer has ticked: depleted, recharging, and the snake
\* still on the start cell.
C14_Witness ==
    /\ Alive
    /\ gameStatus = START_GAME
    /\ boost_depleted
    /\ boost_recharging
    /\ boost = FALSE
    /\ GAME_TIMER_BOOST_ID \in timers
    /\ segs = <<StartNode>>

\* the head of list t is one cell away from the head of list s
OneFrame(s, t) ==
    \/ (t[1].x = s[1].x /\ (t[1].y = s[1].y + 1 \/ t[1].y = s[1].y - 1))
    \/ (t[1].y = s[1].y /\ (t[1].x = s[1].x + 1 \/ t[1].x = s[1].x - 1))

\* C15: a normal-speed timer event advances the snake only when the boost flag
\* is off, a boost timer event only when it is on, a recharge timer event never,
\* and no event advances the snake by more than one frame.
C15_OneDrivingTimer ==
    [][/\ (segs' # segs /\ TimerNormal) => boost = FALSE
       /\ (segs' # segs /\ TimerBoost) => boost = TRUE
       /\ (boost_recharging /\ TimerRecharge) => segs' = segs
       /\ (Alive' /\ segs' # segs) => OneFrame(segs, segs')]_vars

\* C15 witness: both frame timers are armed, the boost flag is on, and the
\* boost timer has advanced the snake and taken energy for it.
C15_Witness ==
    /\ Alive
    /\ gameStatus = START_GAME
    /\ boost
    /\ NORMAL_TICK_SPEED_TIMER_ID \in timers
    /\ GAME_TIMER_BOOST_ID \in timers
    /\ energy_level < MAX_ENERGY
    /\ Len(segs) = 1
    /\ Pos(segs[1]) = <<segs[1].prev_x, segs[1].prev_y - 1>>

\* C16: every detected error is fatal: once logError has been called the
\* process has terminated through exit(1) and no statement after the call has
\* run, whether or not error_log.txt could be opened.
C16_ErrorsAreFatal == logErrorCalls > 0 => proc = "exited"

\* C17: every allocation failure is detected and fatal: when a malloc of the
\* grid or of a snake segment has returned NULL, the failure has been logged
\* and the process has exited before the NULL pointer is used.
C17_AllocFailureFatal == mallocFailed => (logErrorCalls > 0 /\ proc = "exited")

\* C18: a fruit never spawns at a wall position: both coordinates of the
\* fruit location lie in FRUIT_MARGIN .. side - 1 - FRUIT_MARGIN, and no cell
\* carries both the fruit flag and the wall flag.
C18_FruitOffWalls ==
    Alive => /\ fruitLoc[1] \in FRUIT_MARGIN .. (GAMEGRIDCOLS - 1 - FRUIT_MARGIN)
             /\ fruitLoc[2] \in FRUIT_MARGIN .. (GAMEGRIDROWS - 1 - FRUIT_MARGIN)
             /\ containsFruit \cap containsWall = {}

\* a fruit placed by generateFruit after an eat lies in the last column and
\* row of the range
C18_Witness ==
    /\ Alive
    /\ score > 0
    /\ fruitLoc = <<GAMEGRIDCOLS - 1 - FRUIT_MARGIN, GAMEGRIDROWS - 1 - FRUIT_MARGIN>>
    /\ containsFruit = {fruitLoc}

\* C19: a new fruit never spawns at the snake's position: when eatFruit has
\* run generateFruit (the score went up), the fruit cell is the cell of no node
\* of the snake, head or body.  The step is taken in ordinary play: no resume
\* from GAME_OVER and no reset of a grown snake came before it.
C19_FruitOffSnake ==
    [][(/\ score' = score + SCORE_INCREMENT
        /\ Alive'
        /\ ~headFreed
        /\ ghost = 0
        /\ TimerNormal)
       => fruitLoc' \notin {Pos(segs'[k]) : k \in 1 .. Len(segs')}]_vars

\* C20: callers keep grid indices in range: every cell that moveSnake and
\* collisionCheck index in a frame lies on the grid, and so does the fruit
\* cell that eatFruit clears and the one generateFruit sets.
C20_IndicesInRange ==
    [][(gameStatus = START_GAME /\ ~selfLoop /\ ~headFreed /\ TimerNormal)
       => /\ FrameAccesses \subseteq Cells
          /\ fruitLoc \in Cells
          /\ Alive' => fruitLoc' \in Cells]_vars

\* C21: collisionCheck classifies the head's own cell only: in a frame it
\* returns COLLISION exactly when the head's cell is a wall cell or a body
\* cell, EATS_FRUIT exactly when the head's cell holds the fruit and is no
\* collision, and NO_COLLISION otherwise.
C21_HeadCellOnly ==
    [][(gameStatus = START_GAME /\ ~selfLoop /\ ~headFreed /\ ghost = 0 /\ Alive'
        /\ TimerNormal)
       => LET h == Pos(Moved[1])
              S == MoveBodyFlags(containsSnake, segs, 2)
              class == IF h \in containsWall \cup S THEN COLLISION
                       ELSE IF h \in containsFruit THEN EATS_FRUIT
                       ELSE NO_COLLISION
          IN  collisionCheck(h, S, containsWall, containsFruit) = {class}]_vars

\* C22: reset is memory-safe for every snake length: resetSnake frees each
\* tail node exactly once and never the head node, so after the reset
\* snake.node points to no freed node and no node is leaked.
C22_ResetMemorySafe ==
    [][(~selfLoop /\ ~headFreed /\ ghost = 0 /\ ResetCommand)
       => /\ resetSnakeFrees(segs) = 2 .. Len(segs)
          /\ Alive'
          /\ ~headFreed']_vars

\* C23: at shutdown the game data is released exactly once: over the
\* WM_DESTROY messages of the windows that share SnakeWindowProc, freeGameData
\* runs only while the grid and the snake are still allocated, never on a
\* grid already freed or on an empty snake.
C23_ReleasedOnce == [][WmDestroy => (proc = "running" /\ wmDestroys = 0)]_vars

\* C24: the game advances only while it is running: a timer event handled
\* while the status is PAUSE_GAME or GAME_OVER leaves the snake's nodes, the
\* movement direction, every grid flag, the score and the fruit location
\* unchanged.
C24_TimersIdleUnlessRunning ==
    [][(/\ gameStatus \in {PAUSE_GAME, GAME_OVER}
        /\ (TimerNormal \/ TimerIdle \/ TimerBoost \/ TimerRecharge))
       => /\ segs' = segs
          /\ movement_direction' = movement_direction
          /\ containsHead' = containsHead
          /\ containsSnake' = containsSnake
          /\ containsWall' = containsWall
          /\ containsFruit' = containsFruit
          /\ score' = score
          /\ fruitLoc' = fruitLoc]_vars

\* the boost timer has drained energy in a paused game whose snake never moved
C24_Witness ==
    /\ Alive
    /\ gameStatus = PAUSE_GAME
    /\ boost
    /\ GAME_TIMER_BOOST_ID \in timers
    /\ energy_level < MAX_ENERGY
    /\ segs = <<StartNode>>
    /\ containsHead = {StartCell}

\* C25: there is always exactly one fruit: between events exactly one cell
\* has containsFruit set, and it is the cell at gameBoard.fruitLoc.
C25_OneFruit == Alive => containsFruit = {fruitLoc}

\* two fruits have been eaten and replaced
C25_Witness ==
    /\ Alive
    /\ score = 2 * SCORE_INCREMENT
    /\ Len(segs) = 3
    /\ Cardinality(containsFruit) = 1
    /\ gameStatus = START_GAME

----------------------------------------------------------------------------
(* The rejection loop of generateCoordinate, one sample per step.  While   *)
(* generateFruit is running no cell has the fruit flag (eatFruit and       *)
(* resetGame clear it before the call); fruitLoc holds the local           *)
(* coordinate of the loop; generateFruit sets the flag once the loop has   *)
(* returned.                                                                *)

\* the head positions inside the wall ring
HeadCells == {c \in Cells : ~IsBorder(c[1], c[2])}

\* generateFruit has just been called, the head being on any cell inside the ring
InitFruit ==
    \E h \in HeadCells :
        /\ gameStatus = START_GAME
        /\ score = 0
        /\ fruitLoc = <<0, 0>>
        /\ containsHead = {h}
        /\ containsSnake = {}
        /\ containsWall = BorderCells
        /\ containsFruit = {}
        /\ segs = <<Node(h[1], h[2], h[1], h[2])>>
        /\ movement_direction = DIRECTION_UP
        /\ timers = {GAME_TIMER_NORMAL_SPEED_ID}
        /\ headFreed = FALSE
        /\ selfLoop = FALSE
        /\ proc = "running"
        /\ ghost = 0
        /\ boost = FALSE
        /\ boost_depleted = FALSE
        /\ boost_recharging = FALSE
        /\ energy_level = MAX_ENERGY
        /\ mallocFailed = FALSE
        /\ logErrorCalls = 0
        /\ wmDestroys = 0

\* one pass of the while loop with rand() returning r1 and then r2: the
\* candidate is rejected and the loop goes on, or it is returned and
\* generateFruit sets its flag
SampleCoordinate(r1, r2) ==
    /\ proc = "running"
    /\ containsFruit = {}
    /\ fruitLoc' = <<FruitX(r1), FruitY(r2)>>
    /\ containsFruit' = IF coordinate_invalid(fruitLoc', Pos(segs[1])) THEN {} ELSE {fruitLoc'}
    /\ UNCHANGED <<gameStatus, score, containsHead, containsSnake, containsWall, segs,
                   movement_direction, timers, headFreed, selfLoop, proc, ghost, boostVars,
                   mallocFailed, logErrorCalls, wmDestroys>>

NextFruit == \E r1 \in 0 .. RandMax, r2 \in 0 .. RandMax : SampleCoordinate(r1, r2)

\* fair sampling: a pair of values that rand() can return is not left out forever
SpecFruit ==
    /\ InitFruit
    /\ [][NextFruit]_vars
    /\ \A r1 \in 0 .. RandMax, r2 \in 0 .. RandMax : WF_vars(SampleCoordinate(r1, r2))

\* C26: fruit placement terminates: for every head position the sampled range
\* holds a coordinate outside the 3x3 window around the head, and under fair
\* sampling the rejection loop returns, so that the fruit is placed.
C26_PlacementTerminates ==
    /\ [](generateCoordinate(Pos(segs[1])) # {})
    /\ <>(containsFruit = {fruitLoc})

\* the loop has rejected a candidate beside the head and is still running
C26_Witness ==
    /\ containsFruit = {}
    /\ fruitLoc # <<0, 0>>
    /\ coordinate_invalid(fruitLoc, Pos(segs[1]))
    /\ fruitLoc # Pos(segs[1])

\* C27: the snake cannot pass through its own body by reversing: when the
\* snake has at least two nodes and the direction is the exact opposite of its
\* last move (the head's next step leads back to the cell it came from), the
\* next tick of a running game ends with status GAME_OVER.
C27_ReverseEndsGame ==
    [][(/\ Len(segs) >= 2
        /\ gameStatus = START_GAME
        /\ ghost = 0 /\ ~headFreed /\ ~selfLoop
        /\ Pos(segs[1]) # <<segs[1].prev_x, segs[1].prev_y>>
        /\ Pos(HeadStep(segs[1], movement_direction)) = <<segs[1].prev_x, segs[1].prev_y>>
        /\ Alive'
        /\ TimerNormal)
       => gameStatus' = GAME_OVER]_vars

\* C28: at every tick boundary, also after a tick in which the fruit was
\* eaten and the snake extended, a cell has containsSnake set if and only if a
\* node other than the head occupies it.
C28_BodyFlagsAfterTick ==
    [][(ghost = 0 /\ ~headFreed /\ ~selfLoop /\ FrameStep)
       => containsSnake' = BodyCells(segs')]_vars

\* C29: the score equals the score increment times the number of nodes
\* behind the head: score = 10 * (snake length - 1) in every reachable state.
C29_ScoreCountsBody == Alive => score = SCORE_INCREMENT * (Len(segs) - 1)

\* C30: the snake's body is contiguous: every node behind the head is
\* orthogonally adjacent (Manhattan distance exactly 1) to the node before it
\* in the list, a tail node just appended by extendSnake included.
C30_BodyContiguous ==
    Alive => \A k \in 2 .. Len(segs) :
                LET dx == segs[k].x - segs[k - 1].x
                    dy == segs[k].y - segs[k - 1].y
                IN  (IF dx < 0 THEN -dx ELSE dx) + (IF dy < 0 THEN -dy ELSE dy) = 1

\* a third node has just been appended by extendSnake and has not moved yet
C30_Witness ==
    /\ Alive
    /\ ghost = 0
    /\ ~headFreed
    /\ Len(segs) = 3
    /\ score = 2 * SCORE_INCREMENT
    /\ Pos(segs[3]) = <<segs[3].prev_x, segs[3].prev_y>>
    /\ Pos(segs[3]) # Pos(segs[2])

====
